---------------------------- MODULE Spec2Model ----------------------------
(***************************************************************************)
(* gorder: reorders the top-level declarations of a Go file, and the       *)
(* member lists of its interface types, into a canonical order.            *)
(*                                                                         *)
(* The model follows main.go (the current revision, lines 272-653):        *)
(*   - strings are sequences of one-character strings, compared bytewise   *)
(*     as Go's < on strings does;                                          *)
(*   - sort.SliceStable is the insertion sort that the Go library runs on  *)
(*     a slice of fewer than 20 elements (one block);                      *)
(*   - Spec      runs sortDecls / sortFieldList on a parsed file and runs  *)
(*               the tool a second time on its own output;                 *)
(*   - SpecLess  applies the comparator lesss to triples of sort keys;     *)
(*   - SpecBatch is main's loop over the files a glob matched.             *)
(***************************************************************************)
EXTENDS Integers, Sequences, FiniteSets, TLC

VARIABLES
    src,      \* Spec: the declaration list as parsed (file.Decls before sorting)
    decls,    \* Spec: file.Decls, the slice sortDecls permutes in place
    fsrc,     \* Spec: the interface's member list as parsed
    fields,   \* Spec: InterfaceType.Methods.List, permuted by sortFieldList
    pc,       \* Spec: the node dst.Inspect visits next / SpecBatch: position in main
    pass,     \* Spec: which run of the tool this is (the second reads the first's output)
    ka, kb, kc,  \* SpecLess: three sort keys
    cmp,      \* SpecLess: the results of lesss on the pairs of ka, kb, kc
    w,        \* SpecBatch: the -w flag
    orig,     \* SpecBatch: the files' contents before the run
    disk,     \* SpecBatch: the files' contents
    k,        \* SpecBatch: index of the file main's loop is at
    tree,     \* SpecBatch: the parsed declarations of the file being handled
    opened,   \* SpecBatch: the files opened so far (os.Open or os.OpenFile)
    errs,     \* SpecBatch: the files whose handling failed
    stdout,   \* SpecBatch: what was printed to standard output
    exit      \* SpecBatch: the process's exit status, "running" until it ends

vars == <<src, decls, fsrc, fields, pc, pass, ka, kb, kc, cmp,
          w, orig, disk, k, tree, opened, errs, stdout, exit>>

sortVars  == <<src, decls, fsrc, fields, pass>>
lessVars  == <<ka, kb, kc, cmp>>
batchVars == <<w, orig, disk, k, tree, opened, errs, stdout, exit>>

-----------------------------------------------------------------------------
(* Strings *)

\* The characters used, in byte order: '.' < 'A'..'Z' < '_' < 'a'..'z'.
Chars ==
    << ".",
       "A", "B", "C", "D", "E", "F", "G", "H", "I", "J", "K", "L", "M",
       "N", "O", "P", "Q", "R", "S", "T", "U", "V", "W", "X", "Y", "Z",
       "_",
       "a", "b", "c", "d", "e", "f", "g", "h", "i", "j", "k", "l", "m",
       "n", "o", "p", "q", "r", "s", "t", "u", "v", "w", "x", "y", "z" >>

CharSet == {Chars[i] : i \in DOMAIN Chars}

Ord == [c \in CharSet |-> CHOOSE i \in DOMAIN Chars : Chars[i] = c]

\* Mutant of StrLess: <= in place of <.
RECURSIVE StrLessOrEqual(_, _)
StrLessOrEqual(s, t) ==
    IF s = <<>> THEN TRUE
    ELSE IF t = <<>> THEN FALSE
    ELSE IF s[1] # t[1] THEN Ord[s[1]] < Ord[t[1]]
    ELSE StrLessOrEqual(Tail(s), Tail(t))

\* Go's s < t on strings: bytewise lexicographic, a proper prefix is smaller.
RECURSIVE StrLess(_, _)
StrLess(s, t) ==
    IF t = <<>> THEN FALSE
    ELSE IF s = <<>> THEN TRUE
    ELSE IF s[1] # t[1] THEN Ord[s[1]] < Ord[t[1]]
    ELSE StrLess(Tail(s), Tail(t))

\* unicode.IsUpper on the characters used.
IsUpper(c) == Ord[c] >= Ord["A"] /\ Ord[c] <= Ord["Z"]

\* strings.ToLower
ToLower(s) ==
    [i \in 1..Len(s) |->
        IF IsUpper(s[i]) THEN Chars[Ord[s[i]] + (Ord["a"] - Ord["A"])] ELSE s[i]]

\* strings.HasPrefix
HasPrefix(s, p) == Len(s) >= Len(p) /\ SubSeq(s, 1, Len(p)) = p

\* strings.TrimPrefix
TrimPrefix(s, p) == IF HasPrefix(s, p) THEN SubSeq(s, Len(p) + 1, Len(s)) ELSE s

\* firstUpper: whether the first rune is upper case; false for the empty string.
firstUpper(name) == IF name = <<>> THEN FALSE ELSE IsUpper(name[1])

-----------------------------------------------------------------------------
(* Sort keys and the comparator lesss *)

magicTypeMarker == <<"_", "_", "_", "_", "_", "_">>

commonPrefixes ==
    << <<"I", "s">>, <<"H", "a", "s">>, <<"G", "e", "t">>, <<"A", "l", "l">>,
       <<"C", "r", "e", "a", "t", "e">>, <<"N", "e", "w">>, <<"E", "r", "r">>,
       <<"E", "r", "r", "o", "r">>, <<"I", "n", "i", "t">>, <<"F", "i", "n", "d">>,
       <<"S", "e", "t">>, <<"R", "e", "n", "d", "e", "r">> >>

\* The positions of '.' in a string.
Dots(name) == {i \in 1..Len(name) : name[i] = "."}

\* splitOnDot panics ("too many") on a string with more than one '.'.
splitOnDotPanics(name) == Cardinality(Dots(name)) > 1

\* splitOnDot: <<receiver, name>>; the receiver is empty when there is no '.'.
splitOnDot(name) ==
    IF Dots(name) = {} THEN << <<>>, name >>
    ELSE LET d == CHOOSE i \in Dots(name) : \A j \in Dots(name) : i <= j
             rest == SubSeq(name, d + 1, Len(name))
             e == IF Dots(rest) = {} THEN Len(rest) + 1
                  ELSE CHOOSE i \in Dots(rest) : \A j \in Dots(rest) : i <= j
         IN  << SubSeq(name, 1, d - 1), SubSeq(rest, 1, e - 1) >>

\* Mutant of weightAdjustment: the type marker gets no adjustment.
weightAdjustmentNoMarker(name) ==
    (IF firstUpper(name) THEN -2 ELSE 0)
    + (IF HasPrefix(name, <<"N", "e", "w">>) THEN -1 ELSE 0)

\* weightAdjustment
weightAdjustment(name) ==
    (IF name = magicTypeMarker THEN -5 ELSE 0)
    + (IF firstUpper(name) THEN -2 ELSE 0)
    + (IF HasPrefix(name, <<"N", "e", "w">>) THEN -1 ELSE 0)

\* The prefixes of commonPrefixes that s starts with, exact case or lower case.
MatchingPrefixes(s) ==
    {i \in DOMAIN commonPrefixes :
        HasPrefix(s, commonPrefixes[i]) \/ HasPrefix(s, ToLower(commonPrefixes[i]))}

\* trimCommonPrefix: <<first result, second result>>. The first result is the
\* matched prefix (as listed) and the second the rest of s; with no match the
\* first is empty and the second is s.
trimCommonPrefix(s) ==
    IF MatchingPrefixes(s) = {} THEN << <<>>, s >>
    ELSE LET i == CHOOSE x \in MatchingPrefixes(s) : \A y \in MatchingPrefixes(s) : x <= y
             p == commonPrefixes[i]
         IN  IF HasPrefix(s, p) THEN <<p, TrimPrefix(s, p)>>
             ELSE <<p, TrimPrefix(s, ToLower(p))>>

\* The comparison weight lesss gives a name: 100 + weightAdjustment.
adjusted(name) == 100 + weightAdjustment(name)

\* Mutant of lesss: the last two comparisons are <= in place of < .
lesssNonStrict(s1, s2) ==
    LET split1 == splitOnDot(s1)
        split2 == splitOnDot(s2)
        s1r == split1[1]
        s2r == split2[1]
        n1  == split1[2]
        n2  == split2[2]
        trim1 == trimCommonPrefix(n1)
        trim2 == trimCommonPrefix(n2)
        s1name   == trim1[1]
        s1prefix == trim1[2]
        s2name   == trim2[1]
        s2prefix == trim2[2]
    IN  IF s1r # s2r THEN StrLess(s1r, s2r)
        ELSE IF adjusted(n1) # adjusted(n2) THEN adjusted(n1) < adjusted(n2)
        ELSE IF s1prefix # <<>> /\ s2prefix # <<>> THEN ~StrLess(s2prefix, s1prefix)
        ELSE ~StrLess(s2name, s1name)

\* lesss. The code assigns trimCommonPrefix's results as
\*     s1name, s1prefix = trimCommonPrefix(s1name)
\* so s1name receives the first result and s1prefix the second.
lesss(s1, s2) ==
    LET split1 == splitOnDot(s1)
        split2 == splitOnDot(s2)
        s1r == split1[1]
        s2r == split2[1]
        n1  == split1[2]
        n2  == split2[2]
        trim1 == trimCommonPrefix(n1)
        trim2 == trimCommonPrefix(n2)
        s1name   == trim1[1]
        s1prefix == trim1[2]
        s2name   == trim2[1]
        s2prefix == trim2[2]
    IN  IF s1r # s2r THEN StrLess(s1r, s2r)
        ELSE IF adjusted(n1) # adjusted(n2) THEN adjusted(n1) < adjusted(n2)
        ELSE IF s1prefix # <<>> /\ s2prefix # <<>> THEN StrLess(s1prefix, s2prefix)
        ELSE StrLess(s1name, s2name)

\* lessStringers: lesss on the two identifiers' names.
lessStringers(s1, s2) == lesss(s1, s2)

-----------------------------------------------------------------------------
(* Declarations (dst.Decl) and the comparator of sortDecls *)

\* A top-level declaration. id is the node's identity (the pointer the slice
\* holds); node is the Go type (*dst.FuncDecl or *dst.GenDecl); tok the
\* GenDecl's token; recv the FuncDecl's receiver, if any.
FuncDecl(id, recvForm, recvName, nm) ==
    [id |-> id, node |-> "FuncDecl", tok |-> "FUNC",
     recv |-> [form |-> recvForm, name |-> recvName], name |-> nm]

GenDecl(id, tok, nm) ==
    [id |-> id, node |-> "GenDecl", tok |-> tok,
     recv |-> [form |-> "nil", name |-> <<>>], name |-> nm]

funcWeight == 200
typeWeight == 100
constructorFuncWeight == 50
exportedFuncWeight == 30
mainFuncWeight == 10

\* preserveOrder: package and import declarations.
preserveOrder(d) == d.node = "GenDecl" /\ d.tok \in {"PACKAGE", "IMPORT"}

\* isFuncDecl
isFuncDecl(d) == d.node = "FuncDecl"

\* fieldListName of a receiver list: the receiver's type name when the type
\* is an identifier or a pointer to one, the empty string otherwise.
fieldListName(recv) ==
    IF recv.form \in {"Ident", "StarExpr"} THEN recv.name ELSE <<>>

\* Mutant of funcName: no constructor bucket for the names that begin with new.
funcNameNoConstructor(d) ==
    IF d.node # "FuncDecl" THEN << <<>>, -1 >>
    ELSE LET fr == IF d.recv.form \in {"Ident", "StarExpr"} THEN d.recv.name ELSE <<>> IN
         IF fr = <<>> THEN
              IF d.name = <<"m", "a", "i", "n">> THEN <<d.name, mainFuncWeight>>
              ELSE IF firstUpper(d.name) THEN
                   IF HasPrefix(d.name, <<"N", "e", "w">>)
                   THEN <<d.name, exportedFuncWeight - 1>>
                   ELSE <<d.name, exportedFuncWeight>>
              ELSE <<d.name, funcWeight>>
         ELSE <<fr \o <<".">> \o d.name, typeWeight>>

\* funcName: <<key, weight>>, weight -1 for what is no function.
funcName(d) ==
    IF ~isFuncDecl(d) THEN << <<>>, -1 >>
    ELSE LET fr == fieldListName(d.recv) IN
         IF fr = <<>> THEN
              IF d.name = <<"m", "a", "i", "n">> THEN <<d.name, mainFuncWeight>>
              ELSE IF HasPrefix(d.name, <<"n", "e", "w">>) THEN <<d.name, constructorFuncWeight>>
              ELSE IF firstUpper(d.name) THEN
                   IF HasPrefix(d.name, <<"N", "e", "w">>)
                   THEN <<d.name, exportedFuncWeight - 1>>
                   ELSE <<d.name, exportedFuncWeight>>
              ELSE <<d.name, funcWeight>>
         ELSE <<fr \o <<".">> \o d.name, typeWeight>>

\* genName: <<key, weight>>; a type declaration's key is Name.______ .
genName(d) ==
    IF d.node # "GenDecl" THEN << <<>>, -1 >>
    ELSE IF d.tok = "TYPE" THEN <<d.name \o <<".">> \o magicTypeMarker, typeWeight>>
    ELSE << <<>>, -1 >>

\* The closure name of sortDecls: funcName, or genName for what is no function.
nameOf(d) == LET fn == funcName(d) IN IF fn[2] # -1 THEN fn ELSE genName(d)

\* Mutant of indexOrder: i > j.
indexOrderReversed(i, j) == j < i

\* "return i < j": the order of the two positions in the slice.
indexOrder(i, j) == i < j

\* Mutant of declLess: index order when either declaration is unrecognized.
declLessOthersInPlace(data, i, j) ==
    LET di == data[i]
        dj == data[j]
        namei == nameOf(di)
        namej == nameOf(dj)
        si == namei[1]
        weighti == namei[2]
        sj == namej[1]
        weightj == namej[2]
    IN  IF preserveOrder(di) \/ preserveOrder(dj) THEN indexOrder(i, j)
        ELSE IF weighti = -1 \/ weightj = -1 THEN indexOrder(i, j)
        ELSE IF weighti # weightj THEN weighti < weightj
        ELSE lesss(si, sj)

\* The less function sortDecls hands to sort.SliceStable, on the slice as it
\* is when the sort calls it.
declLess(data, i, j) ==
    LET di == data[i]
        dj == data[j]
        namei == nameOf(di)
        namej == nameOf(dj)
        si == namei[1]
        weighti == namei[2]
        sj == namej[1]
        weightj == namej[2]
    IN  IF preserveOrder(di) \/ preserveOrder(dj) THEN indexOrder(i, j)
        ELSE IF weighti = -1 /\ weightj = -1 THEN indexOrder(i, j)
        ELSE IF weighti # weightj THEN weighti < weightj
        ELSE lesss(si, sj)

-----------------------------------------------------------------------------
(* Interface members (dst.Field) and the comparator of sortFieldList *)

\* A member of an interface: names is empty for an embedded type; typ is the
\* member's type expression.
Embedded(id, kind, x, sel) ==
    [id |-> id, names |-> <<>>, typ |-> [kind |-> kind, x |-> x, sel |-> sel]]

Named(id, nm) ==
    [id |-> id, names |-> <<nm>>, typ |-> [kind |-> "FuncType", x |-> <<>>, sel |-> <<>>]]

\* strf of less: X.Sel for a selector, the name for an identifier.
strf(t) == IF t.kind = "SelectorExpr" THEN t.x \o <<".">> \o t.sel ELSE t.sel

\* strf panics on any other expression.
strfPanics(t) == t.kind \notin {"SelectorExpr", "Ident"}

\* less
less(s, t) == lesss(strf(s), strf(t))

\* Mutant of fieldLess: the two embedded-member branches exchanged.
fieldLessEmbeddedLast(data, i, j) ==
    LET fi == data[i]
        fj == data[j]
        ni == Len(fi.names)
        nj == Len(fj.names)
    IN  IF ni = 0 /\ nj = 0 THEN less(fi.typ, fj.typ)
        ELSE IF ni = 0 THEN FALSE
        ELSE IF nj = 0 THEN TRUE
        ELSE lessStringers(fi.names[1], fj.names[1])

\* The less function sortFieldList hands to sort.SliceStable.
fieldLess(data, i, j) ==
    LET fi == data[i]
        fj == data[j]
        ni == Len(fi.names)
        nj == Len(fj.names)
    IN  IF ni = 0 /\ nj = 0 THEN less(fi.typ, fj.typ)
        ELSE IF ni = 0 THEN TRUE
        ELSE IF nj = 0 THEN FALSE
        ELSE lessStringers(fi.names[1], fj.names[1])

-----------------------------------------------------------------------------
(* sort.SliceStable *)

Swap(data, i, j) == [data EXCEPT ![i] = data[j], ![j] = data[i]]

\* The less closure handed to sort.SliceStable: sortDecls's or sortFieldList's.
Less(f, data, i, j) ==
    IF f = "sortDecls" THEN declLess(data, i, j) ELSE fieldLess(data, i, j)

\* sort.SliceStable with the less closure of f, on a slice of one block (fewer
\* than 20 elements), is the insertion sort
\*     for i := 1; i < n; i++ {
\*         for j := i; j > 0 && less(j, j-1); j-- { swap(j, j-1) } }
\* Positions are 1-based here.
\* The inner loop, at position j of slice data.
RECURSIVE insertionInner(_, _, _)
insertionInner(data, f, j) ==
    IF j > 1 /\ Less(f, data, j, j - 1)
    THEN insertionInner(Swap(data, j, j - 1), f, j - 1)
    ELSE data

\* The outer loop, at position i of slice data.
RECURSIVE insertionSort(_, _, _)
insertionSort(data, f, i) ==
    IF i > Len(data) THEN data
    ELSE insertionSort(insertionInner(data, f, i), f, i + 1)

SliceStable(data, f) == insertionSort(data, f, 2)

sortDecls(data) == SliceStable(data, "sortDecls")

sortFieldList(data) == SliceStable(data, "sortFieldList")

-----------------------------------------------------------------------------
(* The files the tool is run on *)

\* Longest declaration list, longest interface member list.
MaxLen == 4
MaxFields == 3

\* import "fmt"; import "os"
impFmt == GenDecl("import fmt", "IMPORT", <<>>)
impOs == GenDecl("import os", "IMPORT", <<>>)
\* const ( ... ); var ( ... )
constBlock == GenDecl("const", "CONST", <<>>)
varBlock == GenDecl("var", "VAR", <<>>)
\* type Foo ...; type Baz ...
typeFoo == GenDecl("type Foo", "TYPE", <<"F", "o", "o">>)
typeBaz == GenDecl("type Baz", "TYPE", <<"B", "a", "z">>)
\* func (f Foo) Bar(); func (f *Foo) init(); func (b *Baz) Qux()
methFooBar == FuncDecl("Foo.Bar", "Ident", <<"F", "o", "o">>, <<"B", "a", "r">>)
methFooInit == FuncDecl("Foo.init", "StarExpr", <<"F", "o", "o">>, <<"i", "n", "i", "t">>)
methBazQux == FuncDecl("Baz.Qux", "StarExpr", <<"B", "a", "z">>, <<"Q", "u", "x">>)
\* free functions
fnMain == FuncDecl("main", "nil", <<>>, <<"m", "a", "i", "n">>)
fnDoStuff == FuncDecl("doStuff", "nil", <<>>, <<"d", "o", "S", "t", "u", "f", "f">>)
fnNewFoo == FuncDecl("newFoo", "nil", <<>>, <<"n", "e", "w", "F", "o", "o">>)
fnNewFooExp == FuncDecl("NewFoo", "nil", <<>>, <<"N", "e", "w", "F", "o", "o">>)
fnRun == FuncDecl("Run", "nil", <<>>, <<"R", "u", "n">>)
fnGetValue == FuncDecl("getValue", "nil", <<>>, <<"g", "e", "t", "V", "a", "l", "u", "e">>)
fnSetValue == FuncDecl("setValue", "nil", <<>>, <<"s", "e", "t", "V", "a", "l", "u", "e">>)

\* Three sample files; a run sorts an arrangement of declarations of one of them.
FileA == {impFmt, fnDoStuff, typeFoo, fnNewFoo, methFooBar, fnMain, fnNewFooExp, fnRun}
FileB == {constBlock, typeFoo, methFooBar, methFooInit, typeBaz, methBazQux, fnRun, fnDoStuff}
FileC == {impFmt, impOs, constBlock, varBlock, fnGetValue, fnSetValue, fnDoStuff, typeFoo}

\* go/parser accepts import declarations only before every other declaration.
ImportsFirst(l) ==
    \A i, j \in DOMAIN l : (preserveOrder(l[j]) /\ ~preserveOrder(l[i])) => j < i

\* The arrangements of up to n distinct elements of pool.
Arrangements(pool, n) ==
    UNION {{l \in [1..m -> pool] : \A i, j \in 1..m : l[i] = l[j] => i = j} : m \in 0..n}

\* Scenario A: doStuff, type Foo, newFoo, (Foo) Bar, main.
ScenarioA == <<fnDoStuff, typeFoo, fnNewFoo, methFooBar, fnMain>>

DeclInputs ==
    {l \in Arrangements(FileA, MaxLen) \cup Arrangements(FileB, MaxLen)
           \cup Arrangements(FileC, MaxLen) : ImportsFirst(l)}
    \cup {ScenarioA}

\* Interface members: embedded io.Reader and Stringer, methods.
embIoReader == Embedded("io.Reader", "SelectorExpr", <<"i", "o">>, <<"R", "e", "a", "d", "e", "r">>)
embStringer == Embedded("Stringer", "Ident", <<>>, <<"S", "t", "r", "i", "n", "g", "e", "r">>)
mZeta == Named("Zeta", <<"Z", "e", "t", "a">>)
mZetaAgain == Named("Zeta (2)", <<"Z", "e", "t", "a">>)
mAlpha == Named("Alpha", <<"A", "l", "p", "h", "a">>)
mClose == Named("close", <<"c", "l", "o", "s", "e">>)
mRead == Named("read", <<"r", "e", "a", "d">>)
mGetZ == Named("GetZ", <<"G", "e", "t", "Z">>)
mHa == Named("Ha", <<"H", "a">>)
mNewThing == Named("NewThing", <<"N", "e", "w", "T", "h", "i", "n", "g">>)

Members == {embIoReader, embStringer, mZeta, mZetaAgain, mAlpha, mClose, mRead,
            mGetZ, mHa, mNewThing}

\* Scenario B: Zeta(), io.Reader, Alpha().
ScenarioB == <<mZeta, embIoReader, mAlpha>>

FieldInputs == Arrangements(Members, MaxFields)

\* A parsed file: declarations without an interface type, or one interface
\* type declaration with its member list.
Files ==
    {<<l, <<>>>> : l \in DeclInputs} \cup {<<<<typeFoo>>, f>> : f \in FieldInputs \ {<<>>}}

-----------------------------------------------------------------------------
(* Spec: handleFile's dst.Inspect on one parsed file, and a second run  *)
(* of the tool on the output of the first                                *)

Init ==
    /\ \E f \in Files : src = f[1] /\ fsrc = f[2]
    /\ decls = src
    /\ fields = fsrc
    /\ pc = "File"
    /\ pass = 1
    /\ ka = <<>> /\ kb = <<>> /\ kc = <<>> /\ cmp = <<>>
    /\ w = FALSE /\ orig = <<>> /\ disk = <<>> /\ k = 0 /\ tree = <<>>
    /\ opened = {} /\ errs = {} /\ stdout = <<>> /\ exit = "running"

\* case *dst.File: sortDecls(v.Decls)
SortDecls ==
    /\ pc = "File"
    /\ decls' = sortDecls(decls)
    /\ pc' = "InterfaceType"
    /\ UNCHANGED <<src, fsrc, fields, pass, lessVars, batchVars>>

\* case *dst.InterfaceType: sortFieldList(v.Methods)
SortFieldList ==
    /\ pc = "InterfaceType"
    /\ fields' = sortFieldList(fields)
    /\ pc' = "printed"
    /\ UNCHANGED <<src, fsrc, decls, pass, lessVars, batchVars>>

\* The tool is run again on the file it printed: the parser yields the
\* declarations and members in the order they were printed in.
RunAgain ==
    /\ pc = "printed"
    /\ pass = 1
    /\ pass' = 2
    /\ pc' = "File"
    /\ UNCHANGED <<src, fsrc, decls, fields, lessVars, batchVars>>

Next == SortDecls \/ SortFieldList \/ RunAgain

Spec == Init /\ [][Next]_vars

-----------------------------------------------------------------------------
(* Properties of sortDecls and sortFieldList, checked under Spec *)

\* sortDecls has run on decls / sortFieldList has run on fields.
DeclsSorted == pc # "File" \/ pass = 2
FieldsSorted == pc = "printed" \/ pass = 2

\* The position of element e in list l (the elements of a list are distinct nodes).
Pos(l, e) == CHOOSE i \in DOMAIN l : l[i] = e

IsType(d) == d.node = "GenDecl" /\ d.tok = "TYPE"
IsMethodOf(d, t) ==
    d.node = "FuncDecl" /\ d.recv.form \in {"Ident", "StarExpr"} /\ d.recv.name = t.name
IsFreeFunc(d) == d.node = "FuncDecl" /\ d.recv.form = "nil"
IsOther(d) == d.node = "GenDecl" /\ d.tok \in {"CONST", "VAR"}
Recognized(d) == d.node = "FuncDecl" \/ IsType(d)

C2_Anchoring ==
    \A m, d \in DOMAIN src :
        preserveOrder(src[m]) =>
            ((d < m) <=> (Pos(decls, src[d]) < Pos(decls, src[m])))

\* Two imports ahead of declarations that sortDecls has reordered.
C2_Witness ==
    /\ DeclsSorted
    /\ decls # src
    /\ Cardinality({m \in DOMAIN src : preserveOrder(src[m])}) = 2

\* The weight bucket of a recognized declaration, as the claim lists them.
Bucket(d) ==
    IF IsFreeFunc(d) /\ d.name = <<"m", "a", "i", "n">> THEN 10
    ELSE IF IsFreeFunc(d) /\ firstUpper(d.name) /\ HasPrefix(d.name, <<"N", "e", "w">>) THEN 29
    ELSE IF IsFreeFunc(d) /\ firstUpper(d.name) THEN 30
    ELSE IF IsFreeFunc(d) /\ HasPrefix(d.name, <<"n", "e", "w">>) THEN 50
    ELSE IF IsFreeFunc(d) THEN 200
    ELSE 100

\* C3: sortDecls orders the recognized declarations by weight bucket, lower
\* first; Scenario A comes out as main, newFoo, type Foo, Foo.Bar, doStuff.
C3_WeightOrder ==
    DeclsSorted =>
        /\ \A i, j \in DOMAIN decls :
              (i < j /\ Recognized(decls[i]) /\ Recognized(decls[j]))
                  => Bucket(decls[i]) <= Bucket(decls[j])
        /\ src = ScenarioA => decls = <<fnMain, fnNewFoo, typeFoo, methFooBar, fnDoStuff>>

C3_Witness == pc = "InterfaceType" /\ pass = 1 /\ src = ScenarioA /\ decls # src

DeclKey(d) == <<preserveOrder(d), nameOf(d)>>
FieldKey(f) == <<f.names, IF f.names = <<>> THEN strf(f.typ) ELSE <<>> >>

PrefixIndex(nm) ==
    IF MatchingPrefixes(nm) = {} THEN 0
    ELSE CHOOSE x \in MatchingPrefixes(nm) : \A y \in MatchingPrefixes(nm) : x <= y

\* Two declarations tie on group key and weight.
Tie(a, b) ==
    /\ Recognized(a) /\ Recognized(b)
    /\ fieldListName(a.recv) = fieldListName(b.recv)
    /\ IsType(a) = IsType(b)
    /\ Bucket(a) = Bucket(b)
    /\ firstUpper(a.name) = firstUpper(b.name)

\* C6: of two declarations that tie on group key and weight and match
\* different listed prefixes, the one whose prefix is listed earlier comes
\* first, whatever the source order: getValue before setValue.
C6_PrefixOrder ==
    DeclsSorted =>
        \A i, j \in DOMAIN decls :
            ( /\ Tie(decls[i], decls[j])
              /\ PrefixIndex(decls[i].name) # 0
              /\ PrefixIndex(decls[j].name) # 0
              /\ PrefixIndex(decls[i].name) < PrefixIndex(decls[j].name) ) => i < j

IsEmbedded(f) == f.names = <<>>
IsNamed(f) == f.names # <<>>
Exported(f) == IsNamed(f) /\ firstUpper(f.names[1])
StartsWithNew(f) == IsNamed(f) /\ HasPrefix(f.names[1], <<"N", "e", "w">>)

\* Embedded members first, exported names before unexported ones, and
\* Scenario B comes out as io.Reader, Alpha, Zeta.
MembersByClass ==
    /\ \A i, j \in DOMAIN fields :
          (IsEmbedded(fields[i]) /\ IsNamed(fields[j])) => i < j
    /\ \A i, j \in DOMAIN fields :
          (Exported(fields[i]) /\ IsNamed(fields[j]) /\ ~Exported(fields[j])) => i < j
    /\ fsrc = ScenarioB => fields = <<embIoReader, mAlpha, mZeta>>

\* The named members with the same exportedness are in lexicographic order.
NamesLexicographic ==
    \A i, j \in DOMAIN fields :
        ( /\ i < j
          /\ IsNamed(fields[i]) /\ IsNamed(fields[j])
          /\ Exported(fields[i]) = Exported(fields[j]) )
            => ~StrLess(fields[j].names[1], fields[i].names[1])

\* C7 as stated: after sortFieldList every embedded member precedes every
\* named member, every exported name precedes every unexported name, and the
\* names are otherwise in lexicographic order.
C7_Lexicographic == FieldsSorted => (MembersByClass /\ NamesLexicographic)

\* C7 as amended: embedded members first, exported names before unexported
\* ones, exported names that begin with New before the other exported names,
\* and lexicographic order within the exported and within the unexported
\* names when no name begins with a listed prefix.
C7_MemberOrder ==
    FieldsSorted =>
        /\ MembersByClass
        /\ \A i, j \in DOMAIN fields :
              ( /\ Exported(fields[i]) /\ StartsWithNew(fields[i])
                /\ Exported(fields[j]) /\ ~StartsWithNew(fields[j]) ) => i < j
        /\ (\A i \in DOMAIN fields :
               IsNamed(fields[i]) => PrefixIndex(fields[i].names[1]) = 0)
              => NamesLexicographic

\* Scenario B has been sorted.
C7_Witness == pc = "printed" /\ pass = 1 /\ fsrc = ScenarioB /\ fields # fsrc

\* C9 as stated: an unrecognized declaration (const, var) stays on the side of
\* every recognized declaration that it was on in the source.
C9_OthersKeepPlace ==
    \A o, r \in DOMAIN src :
        (IsOther(src[o]) /\ Recognized(src[r]))
            => ((o < r) <=> (Pos(decls, src[o]) < Pos(decls, src[r])))

\* C9 as amended: sortDecls moves the unrecognized declarations ahead of every
\* recognized declaration (and never across an import); among themselves they
\* keep their source order.
C9_OthersFirst ==
    /\ DeclsSorted =>
          \A i, j \in DOMAIN decls :
              /\ (IsOther(decls[i]) /\ Recognized(decls[j])) => i < j
              /\ (preserveOrder(decls[i]) /\ IsOther(decls[j])) => i < j
    /\ \A a, b \in DOMAIN src :
          (a < b /\ IsOther(src[a]) /\ IsOther(src[b]))
              => Pos(decls, src[a]) < Pos(decls, src[b])

\* A const and a var block that the source had after a function or type.
C9_Witness ==
    /\ pc = "InterfaceType" /\ pass = 1
    /\ \E a, b, r \in DOMAIN src :
          a < b /\ r < a /\ IsOther(src[a]) /\ IsOther(src[b]) /\ Recognized(src[r])

-----------------------------------------------------------------------------
(* SpecLess: the comparator lesss on three sort keys *)

\* Sort keys: names of functions and interface members (a listed prefix, a
\* name beginning with one, names matching none), method keys Recv.Name, a
\* type's key Name.______ and an embedded selector.
Keys ==
    { <<"G", "e", "t">>,
      <<"G", "e", "t", "Z">>,
      <<"Z", "e", "d">>,
      <<"S", "e", "t", "A">>,
      <<"A", "l", "p", "h", "a">>,
      <<"Z", "e", "t", "a">>,
      <<"N", "e", "w", "F", "o", "o">>,
      <<"g", "e", "t", "V", "a", "l", "u", "e">>,
      <<"s", "e", "t", "V", "a", "l", "u", "e">>,
      <<"i", "n", "i", "t">>,
      <<"d", "o", "S", "t", "u", "f", "f">>,
      <<"F", "o", "o", ".", "B", "a", "r">>,
      <<"F", "o", "o", ".", "_", "_", "_", "_", "_", "_">>,
      <<"B", "a", "z", ".", "Q", "u", "x">>,
      <<"i", "o", ".", "R", "e", "a", "d", "e", "r">> }

InitLess ==
    /\ ka \in Keys /\ kb \in Keys /\ kc \in Keys
    /\ cmp = <<>>
    /\ pc = "keys"
    /\ src = <<>> /\ decls = <<>> /\ fsrc = <<>> /\ fields = <<>> /\ pass = 1
    /\ w = FALSE /\ orig = <<>> /\ disk = <<>> /\ k = 0 /\ tree = <<>>
    /\ opened = {} /\ errs = {} /\ stdout = <<>> /\ exit = "running"

\* The sort calls the comparator on the pairs of the three keys.
Compare ==
    /\ pc = "keys"
    /\ cmp' = [ab |-> lesss(ka, kb), ba |-> lesss(kb, ka),
               bc |-> lesss(kb, kc), cb |-> lesss(kc, kb),
               ac |-> lesss(ka, kc), ca |-> lesss(kc, ka)]
    /\ pc' = "compared"
    /\ UNCHANGED <<ka, kb, kc, sortVars, batchVars>>

NextLess == Compare

SpecLess == InitLess /\ [][NextLess]_vars

\* C10: the comparator is a strict weak ordering: never less(a,b) and
\* less(b,a); less(a,b) and less(b,c) imply less(a,c); and if a, b compare
\* equal and b, c compare equal then a, c compare equal.
C10_StrictWeakOrder ==
    pc = "compared" =>
        /\ ~(cmp.ab /\ cmp.ba)
        /\ (cmp.ab /\ cmp.bc) => cmp.ac
        /\ (~cmp.ab /\ ~cmp.ba /\ ~cmp.bc /\ ~cmp.cb) => (~cmp.ac /\ ~cmp.ca)

-----------------------------------------------------------------------------
(* SpecBatch: main's loop over the files the glob matched *)

\* Most files a glob matches.
MaxFiles == 3

\* A file's content: the declarations written in it, and whether the text is
\* a Go file that decorator.Parse accepts.
GoFile(l) == [parses |-> TRUE, decls |-> l]
Partial(l) == [parses |-> FALSE, decls |-> l]
Garbage == Partial(<<>>)
Contents == {GoFile(ScenarioA), GoFile(<<impFmt, fnRun, constBlock>>), Garbage}

NFiles == Len(orig)

InitBatch ==
    /\ w \in BOOLEAN
    /\ \E n \in 0..MaxFiles : orig \in [1..n -> Contents]
    /\ disk = orig
    /\ k = 0
    /\ tree = <<>>
    /\ opened = {}
    /\ errs = {}
    /\ stdout = <<>>
    /\ exit = "running"
    /\ pc = "main"
    /\ src = <<>> /\ decls = <<>> /\ fsrc = <<>> /\ fields = <<>> /\ pass = 1
    /\ ka = <<>> /\ kb = <<>> /\ kc = <<>> /\ cmp = <<>>

\* main up to its loop: several matches without -w are a usage error.
Start ==
    /\ pc = "main"
    /\ IF NFiles > 1 /\ ~w
       THEN exit' = "fatal" /\ pc' = "exited" /\ k' = k
       ELSE exit' = exit /\ pc' = "loop" /\ k' = 1
    /\ UNCHANGED <<w, orig, disk, tree, opened, errs, stdout, sortVars, lessVars>>

\* for _, filename := range filenames: the next file, or main returns.
LoopHead ==
    /\ pc = "loop"
    /\ IF k > NFiles
       THEN exit' = "ok" /\ pc' = "exited"
       ELSE exit' = exit /\ pc' = "open"
    /\ UNCHANGED <<w, orig, disk, k, tree, opened, errs, stdout, sortVars, lessVars>>

\* handleFile: os.Open, which may fail.
Open ==
    /\ pc = "open"
    /\ \/ opened' = opened \cup {k} /\ pc' = "read" /\ errs' = errs
       \/ opened' = opened /\ pc' = "return" /\ errs' = errs \cup {k}
    /\ UNCHANGED <<w, orig, disk, k, tree, stdout, exit, sortVars, lessVars>>

\* handleFile: f.Stat and ioutil.ReadAll, which may fail.
Read ==
    /\ pc = "read"
    /\ \/ pc' = "parse" /\ errs' = errs
       \/ pc' = "return" /\ errs' = errs \cup {k}
    /\ UNCHANGED <<w, orig, disk, k, tree, opened, stdout, exit, sortVars, lessVars>>

\* handleFile: decorator.Parse, which fails on text that is no Go file.
Parse ==
    /\ pc = "parse"
    /\ IF ~disk[k].parses
       THEN pc' = "return" /\ errs' = errs \cup {k} /\ tree' = tree
       ELSE pc' = "inspect" /\ errs' = errs /\ tree' = disk[k].decls
    /\ UNCHANGED <<w, orig, disk, k, opened, stdout, exit, sortVars, lessVars>>

\* handleFile: dst.Inspect sorts the declarations of the tree.
Inspect ==
    /\ pc = "inspect"
    /\ tree' = sortDecls(tree)
    /\ pc' = "create"
    /\ UNCHANGED <<w, orig, disk, k, opened, errs, stdout, exit, sortVars, lessVars>>

\* handleFile: with -w, os.OpenFile truncates the file, or fails and leaves
\* it; without -w the output is standard output.
Create ==
    /\ pc = "create"
    /\ IF w
       THEN \/ disk' = [disk EXCEPT ![k] = Partial(<<>>)] /\ pc' = "print" /\ errs' = errs
            \/ disk' = disk /\ pc' = "return" /\ errs' = errs \cup {k}
       ELSE disk' = disk /\ pc' = "print" /\ errs' = errs
    /\ UNCHANGED <<w, orig, k, tree, opened, stdout, exit, sortVars, lessVars>>

\* handleFile: decorator.Fprint writes the tree and handleFile returns nil;
\* or the write fails part-way and log.Fatal ends the process.
Fprint ==
    /\ pc = "print"
    /\ \/ /\ IF w THEN disk' = [disk EXCEPT ![k] = GoFile(tree)] /\ stdout' = stdout
                  ELSE disk' = disk /\ stdout' = stdout \o tree
          /\ pc' = "return" /\ errs' = errs /\ exit' = exit
       \/ /\ \E m \in 0..(Len(tree) - 1) :
                IF w THEN disk' = [disk EXCEPT ![k] = Partial(SubSeq(tree, 1, m))] /\ stdout' = stdout
                     ELSE disk' = disk /\ stdout' = stdout \o SubSeq(tree, 1, m)
          /\ pc' = "exited" /\ errs' = errs \cup {k} /\ exit' = "fatal"
    /\ UNCHANGED <<w, orig, k, tree, opened, sortVars, lessVars>>

\* Mutant of Return: the error handleFile returned is ignored.
ReturnIgnoringErr ==
    /\ pc = "return"
    /\ exit' = exit /\ pc' = "loop" /\ k' = k + 1
    /\ UNCHANGED <<w, orig, disk, tree, opened, errs, stdout, sortVars, lessVars>>

\* main: if err := handleFile(filename, w); err != nil { log.Fatal(err) }
Return ==
    /\ pc = "return"
    /\ IF k \in errs
       THEN exit' = "fatal" /\ pc' = "exited" /\ k' = k
       ELSE exit' = exit /\ pc' = "loop" /\ k' = k + 1
    /\ UNCHANGED <<w, orig, disk, tree, opened, errs, stdout, sortVars, lessVars>>

NextBatch ==
    Start \/ LoopHead \/ Open \/ Read \/ Parse \/ Inspect \/ Create \/ Fprint \/ Return

SpecBatch == InitBatch /\ [][NextBatch]_vars

\* C8: with -w the files are handled one at a time in order, and when the
\* handling of a file fails the run ends with a non-zero exit, the files before
\* it stay rewritten and the files after it are never opened or modified.
C8_FailFast ==
    w =>
        /\ \A f \in opened : f <= k
        /\ \A f \in 1..NFiles : f > k => disk[f] = orig[f]
        /\ \A f \in 1..NFiles : (f < k /\ k > 0) => disk[f] = GoFile(sortDecls(orig[f].decls))
        /\ \A f \in errs :
              /\ f = k
              /\ pc \in {"return", "exited"}
              /\ pc = "exited" => exit = "fatal"

\* The second of three files failed after the first was rewritten.
C8_Witness ==
    /\ w /\ NFiles = 3 /\ errs = {2} /\ exit = "fatal"
    /\ disk[1] # orig[1] /\ disk[1] = GoFile(sortDecls(orig[1].decls))
    /\ orig[3] # Garbage

=============================================================================
